---- MODULE Spec2Model ----
(***************************************************************************)
(* State-machine model of emu_like's Sample class (src/emu_like/sample.py) *)
(* over a small file system: generate / resume with incremental            *)
(* persistence, save, load (three input formats), join and                 *)
(* train_test_split.                                                       *)
(***************************************************************************)
EXTENDS Integers, Sequences, FiniteSets, TLC

VARIABLES fs, s, pc, loc, inp, err, warned, ld, ghost, pool, joined, nested, rngtab

vars == <<fs, s, pc, loc, inp, err, warned, ld, ghost, pool, joined, nested, rngtab>>

----------------------------------------------------------------------------
(* Bounds of the model *)

\* largest number of rows of a generated sample / of a data file
MaxN == 3
\* largest number of x columns
MaxNX == 2
\* largest number of y columns
MaxNY == 2
\* number of train_test_split calls followed in one behaviour
MaxSplits == 2
\* number of Samples handed to join
MaxPool == 3

----------------------------------------------------------------------------
(* Values: floats are modelled by integers; nan and inf are two            *)
(* distinguished values for which np.isfinite is false.                    *)

None == -1
NaN == -7
Inf == 999

isfinite(v) == v # NaN /\ v # Inf

\* np.savetxt writes each number with '%.18e' (lossless for a double),
\* nan as 'nan' and inf as 'inf'
fmt(v) == IF v = NaN THEN [t |-> "nan", v |-> 0] ELSE IF v = Inf THEN [t |-> "inf", v |-> 0] ELSE [t |-> "num", v |-> v]

\* np.genfromtxt converts one field back to a float
parse(tok) == IF tok.t = "nan" THEN NaN ELSE IF tok.t = "inf" THEN Inf ELSE tok.v

----------------------------------------------------------------------------
(* Sequences *)

RECURSIVE SumSeq(_)
SumSeq(q) == IF q = <<>> THEN 0 ELSE Head(q) + SumSeq(Tail(q))

RECURSIVE Flatten(_)
Flatten(qq) == IF qq = <<>> THEN <<>> ELSE Head(qq) \o Flatten(Tail(qq))

RECURSIVE FilterIdx(_, _, _)
FilterIdx(q, keep, k) == IF k > Len(q) THEN <<>> ELSE (IF keep[k] THEN <<q[k]>> ELSE <<>>) \o FilterIdx(q, keep, k + 1)

\* the value of F at v, with v computed once
Bind(v, F(_)) == CHOOSE r \in {F(w) : w \in {v}} : TRUE

MinOf(S) == CHOOSE m \in S : \A o \in S : m <= o
MaxOf(S) == CHOOSE m \in S : \A o \in S : m >= o

----------------------------------------------------------------------------
(* numpy arrays: a 2-D array is its shape and its rows; ndim 1 and ndim 0  *)
(* arrays occur only as the raw result of np.genfromtxt.                   *)

NoneArr == [nr |-> None, nc |-> None, d |-> <<>>]

Arr(d, nc) == [nr |-> Len(d), nc |-> nc, d |-> d]

\* the array a Python list of equally long rows stands for (np.array(list))
ArrOfRows(d) == Arr(d, IF d = <<>> THEN 0 ELSE Len(d[1]))

NoneNames == [known |-> FALSE, v |-> <<>>]
Names(v) == [known |-> TRUE, v |-> v]

NoneRanges == [known |-> FALSE, v |-> <<>>]

\* np.min / np.max along axis 0 of one column (nan propagates)
amin(col) == IF \E k \in 1..Len(col) : col[k] = NaN THEN NaN ELSE MinOf({col[k] : k \in 1..Len(col)})
amax(col) == IF \E k \in 1..Len(col) : col[k] = NaN THEN NaN ELSE MaxOf({col[k] : k \in 1..Len(col)})

Column(a, c) == [r \in 1..a.nr |-> a.d[r][c]]

\* list(zip(np.min(x, axis=0), np.max(x, axis=0)))
ranges(a) == [known |-> TRUE, v |-> [c \in 1..a.nc |-> <<amin(Column(a, c)), amax(Column(a, c))>>]]

\* np.vstack of a list of 2-D arrays with the same number of columns
vstack(arrs) == Arr(Flatten([k \in 1..Len(arrs) |-> arrs[k].d]), arrs[1].nc)

\* np.vstack needs all blocks to have the same number of columns
vstack_ok(arrs) == \A k \in 1..Len(arrs) : arrs[k].nc = arrs[1].nc

----------------------------------------------------------------------------
(* Column selections: slice(None), slice(None, -1), slice(-1, None)        *)

ColAll == "slice(None)"
ColButLast == "slice(None,-1)"
ColLast == "slice(-1,None)"

\* the indices a slice selects among n columns
slice_idx(cols, n) == IF cols = ColAll THEN [k \in 1..n |-> k] ELSE IF cols = ColButLast THEN [k \in 1..(n - 1) |-> k] ELSE IF n = 0 THEN <<>> ELSE <<n>>

take(q, idx) == [k \in 1..Len(idx) |-> q[idx[k]]]

\* array[:, columns]
take_cols(a, cols) == Arr([r \in 1..a.nr |-> take(a.d[r], slice_idx(cols, a.nc))], Len(slice_idx(cols, a.nc)))

----------------------------------------------------------------------------
(* Settings record and the file system.  A path is the sequence of its     *)
(* components; a text file is its leading comment lines (each the sequence *)
(* of its tab-separated fields) and its rows of number fields.             *)

NoneSettings == [known |-> FALSE, n_samples |-> None, sampled_function |-> None]

Absent == [kind |-> "none", hdr |-> <<>>, rows |-> <<>>, yaml |-> NoneSettings]
Folder == [kind |-> "dir", hdr |-> <<>>, rows |-> <<>>, yaml |-> NoneSettings]
TextFile(hdr, rows) == [kind |-> "file", hdr |-> hdr, rows |-> rows, yaml |-> NoneSettings]
YamlFile(content) == [kind |-> "file", hdr |-> <<>>, rows |-> <<>>, yaml |-> content]

NoPath == <<>>
XName == "x_sample.txt"
YName == "y_sample.txt"
ParamsName == "params.yaml"

\* os.path.join(path, name)
path_join(path, name) == Append(path, name)

Lookup(f, path) == IF path \in DOMAIN f THEN f[path] ELSE Absent

isdir(f, path) == Lookup(f, path).kind = "dir"
isfile(f, path) == Lookup(f, path).kind = "file"

Put(f, path, entry) == [p \in (DOMAIN f) \cup {path} |-> IF p = path THEN entry ELSE f[p]]

\* io.Folder(path).create(): the folder exists afterwards
folder_create(f, path) == IF isdir(f, path) THEN f ELSE Put(f, path, Folder)

\* '\t'.join(names): the text of the header, as its tab-separated fields
\* (the empty string is the single empty field)
join_tab(names) == IF names = <<>> THEN <<"">> ELSE names

\* np.savetxt(fpath, array, header=header): overwrite; a header line is
\* written only when the header text is not empty
savetxt(f, fpath, a, header) == Put(f, fpath, TextFile(IF header = <<"">> THEN <<>> ELSE <<header>>, [r \in 1..Len(a.d) |-> [c \in 1..Len(a.d[r]) |-> fmt(a.d[r][c])]]))

\* open(fpath, 'a'); np.savetxt(fn, [y_val]): one more row, nothing else touched
append_row(f, fpath, row) == LET e == Lookup(f, fpath) IN Put(f, fpath, TextFile(e.hdr, Append(e.rows, [c \in 1..Len(row) |-> fmt(row[c])])))

\* the fields of a data file converted to numbers, row by row
parse_rows(rows) == [r \in 1..Len(rows) |-> [c \in 1..Len(rows[r]) |-> parse(rows[r][c])]]

\* the array np.genfromtxt returns for the parsed rows: squeezed, so that
\* one row or one column gives ndim 1 and a single number ndim 0; rows of
\* different lengths are a ValueError
squeeze(vals) == IF \E r \in 1..Len(vals) : Len(vals[r]) # Len(vals[1]) THEN [err |-> "ValueError", ndim |-> None, flat |-> <<>>, a |-> NoneArr]
                 ELSE IF Len(vals) = 0 THEN [err |-> "ok", ndim |-> 1, flat |-> <<>>, a |-> NoneArr]
                 ELSE IF Len(vals) = 1 /\ Len(vals[1]) = 1 THEN [err |-> "ok", ndim |-> 0, flat |-> vals[1], a |-> NoneArr]
                 ELSE IF Len(vals) = 1 THEN [err |-> "ok", ndim |-> 1, flat |-> vals[1], a |-> NoneArr]
                 ELSE IF Len(vals[1]) = 1 THEN [err |-> "ok", ndim |-> 1, flat |-> [r \in 1..Len(vals) |-> vals[r][1]], a |-> NoneArr]
                 ELSE [err |-> "ok", ndim |-> 2, flat |-> <<>>, a |-> Arr(vals, Len(vals[1]))]

\* np.genfromtxt(path)
genfromtxt(rows) == Bind(parse_rows(rows), LAMBDA vals : squeeze(vals))

\* if array.ndim == 1: array = array[:, np.newaxis]
newaxis(raw) == IF raw.ndim = 1 THEN Arr([k \in 1..Len(raw.flat) |-> <<raw.flat[k]>>], 1) ELSE raw.a

\* Sample._try_to_load_names_array(path, n_names): the fields of the last
\* leading comment line, or None when there is none or the count is wrong
try_to_load_names_array(e, n_names) == IF e.hdr = <<>> THEN NoneNames
                                       ELSE IF n_names # 0 THEN (IF n_names = Len(e.hdr[Len(e.hdr)]) THEN Names(e.hdr[Len(e.hdr)]) ELSE NoneNames)
                                       ELSE Names(e.hdr[Len(e.hdr)])

\* names = names[columns], or None kept (the TypeError is passed over)
take_names(names, columns) == IF names.known THEN Names(take(names.v, slice_idx(columns, Len(names.v)))) ELSE NoneNames

\* Sample._load_array(path, columns)
load_array(f, path, columns) == Bind(Lookup(f, path), LAMBDA e :
                                  IF e.kind # "file" THEN [err |-> "OSError", array |-> NoneArr, names |-> NoneNames]
                                  ELSE Bind(genfromtxt(e.rows), LAMBDA raw :
                                    IF raw.err # "ok" THEN [err |-> raw.err, array |-> NoneArr, names |-> NoneNames]
                                    ELSE IF raw.ndim = 0 THEN [err |-> "IndexError", array |-> NoneArr, names |-> NoneNames]
                                    ELSE Bind(newaxis(raw), LAMBDA array :
                                      [err |-> "ok", array |-> take_cols(array, columns), names |-> take_names(try_to_load_names_array(e, array.nc), columns)])))

----------------------------------------------------------------------------
(* The Sample object and its collaborators                                 *)

\* Sample.__init__: every attribute a placeholder
EmptySample == [x |-> NoneArr, y |-> NoneArr, x_names |-> NoneNames, y_names |-> NoneNames, n_samples |-> None, n_x |-> None, n_y |-> None, settings |-> NoneSettings, path |-> NoPath, x_train |-> NoneArr, y_train |-> NoneArr, x_test |-> NoneArr, y_test |-> NoneArr, x_ranges |-> NoneRanges]

\* names of the varying parameters, in the order of the parameter dictionary
ParamNames == <<"a", "b", "c", "d">>
\* names the sampled function gives to its outputs
OutputNames == <<"y1", "y2", "y3", "y4">>

\* the model-state a call without model builds from the row it is given
NoModel == [built |-> FALSE, offset |-> 0]
fun_model(xrow) == [built |-> TRUE, offset |-> xrow[1]]

\* y_val of fun(x, x_names, params, model=model): deterministic in the row
\* and the model-state; the sampled function with id ny has ny outputs
fun_y(ny, xrow, model) == [j \in 1..ny |-> 10 * SumSeq(xrow) + j + 100 * model.offset]

\* y_names of fun(...)
fun_names(ny) == SubSeq(OutputNames, 1, ny)

\* smp.Sampler().choose_one(spacing).get_x(...): the x matrices the sampler
\* may return for n rows and nx varying parameters
XRows(nx) == {[c \in 1..nx |-> v + c - 1] : v \in {0, 1}}
XMatrices(n, nx) == {Arr(d, nx) : d \in [1..n -> XRows(nx)]}

\* Params().load(path_settings): the document at the path; opening a path
\* below a regular file fails with NotADirectoryError, a missing one with
\* FileNotFoundError
params_load(f, path, path_settings) == IF isfile(f, path) THEN [err |-> "NotADirectoryError", content |-> NoneSettings]
                                       ELSE IF isfile(f, path_settings) THEN [err |-> "ok", content |-> Lookup(f, path_settings).yaml]
                                       ELSE [err |-> "FileNotFoundError", content |-> NoneSettings]

\* Sample._save_settings(path)
save_settings(self, f, path) == Put(f, path_join(path, ParamsName), YamlFile(self.settings))

\* Sample._save_x(path): '\t'.join(None) raises TypeError
save_x(self, f, path) == IF self.x_names.known THEN [err |-> "ok", fs |-> savetxt(f, path_join(path, XName), self.x, join_tab(self.x_names.v))] ELSE [err |-> "TypeError", fs |-> f]

\* Sample._save_y(path): the header is empty when y_names is None
save_y(self, f, path) == savetxt(f, path_join(path, YName), self.y, IF self.y_names.known THEN join_tab(self.y_names.v) ELSE <<"">>)

\* the y-file opened with 'w' instead of 'a': the row replaces the file
append_y_truncating(f, path, y_val) == Put(f, path_join(path, YName), TextFile(<<>>, <<[c \in 1..Len(y_val) |-> fmt(y_val[c])]>>))

\* Sample._append_y(path, y_val)
append_y(f, path, y_val) == append_row(f, path_join(path, YName), y_val)

----------------------------------------------------------------------------
(* Sample.load                                                             *)

\* load's locals, with self.x and self.y as lines 283-284 read them
NoLoad == [case |-> 0, path_x |-> NoPath, path_y |-> NoPath, columns_x |-> ColAll, columns_y |-> ColAll, x_read |-> NoneArr, y_read |-> NoneArr]

\* which of the branches of load's if / elif chain is taken
load_case(f, path, path_y) == IF path # NoPath /\ path_y # NoPath THEN 1 ELSE IF isdir(f, path) THEN 2 ELSE IF isfile(f, path) THEN 3 ELSE 4

\* path_x, path_y, columns_x, columns_y as the chain leaves them
load_paths(f, path, path_y, columns_x, columns_y) == Bind(load_case(f, path, path_y), LAMBDA case :
                                                       IF case = 1 THEN [case |-> 1, path_x |-> path, path_y |-> path_y, columns_x |-> columns_x, columns_y |-> columns_y, x_read |-> NoneArr, y_read |-> NoneArr]
                                                       ELSE IF case = 2 THEN [case |-> 2, path_x |-> path_join(path, XName), path_y |-> path_join(path, YName), columns_x |-> columns_x, columns_y |-> columns_y, x_read |-> NoneArr, y_read |-> NoneArr]
                                                       ELSE IF case = 3 THEN [case |-> 3, path_x |-> path, path_y |-> path, columns_x |-> ColButLast, columns_y |-> ColLast, x_read |-> NoneArr, y_read |-> NoneArr]
                                                       ELSE [case |-> 4, path_x |-> NoPath, path_y |-> NoPath, columns_x |-> columns_x, columns_y |-> columns_y, x_read |-> NoneArr, y_read |-> NoneArr])

\* only_finites = np.any(np.isfinite(self.y), axis=1)
only_finites(y) == [r \in 1..y.nr |-> \E c \in 1..y.nc : isfinite(y.d[r][c])]

\* array[mask] for a boolean mask over the rows
mask_rows(a, mask) == Arr(FilterIdx(a.d, mask, 1), a.nc)

\* load, lines 285-299: x_ranges, the removal of non-finite rows, the counts
load_finish(s4, w, l, remove_non_finite) == IF s4.x.nr = 0 THEN [s |-> s4, err |-> "ValueError", warned |-> w, ld |-> l]
                                            ELSE Bind([s4 EXCEPT !.x_ranges = ranges(s4.x)], LAMBDA s5 :
                                              IF remove_non_finite /\ s5.x.nr # s5.y.nr THEN [s |-> s5, err |-> "IndexError", warned |-> w, ld |-> l]
                                              ELSE Bind(only_finites(s5.y), LAMBDA mask :
                                                Bind(IF remove_non_finite THEN [s5 EXCEPT !.x = mask_rows(s5.x, mask), !.y = mask_rows(s5.y, mask)] ELSE s5, LAMBDA s6 :
                                                  [s |-> [s6 EXCEPT !.n_samples = s6.x.nr, !.n_x = s6.x.nc, !.n_y = s6.y.nc], err |-> "ok", warned |-> w, ld |-> l])))

\* load, lines 257-284: the paths, then x and y from their files
load_data(s1, w, f, l, path, remove_non_finite) == IF l.case = 4 THEN [s |-> s1, err |-> "FileNotFoundError", warned |-> w, ld |-> l]
                                                   ELSE Bind(IF l.case = 2 THEN [s1 EXCEPT !.path = path] ELSE s1, LAMBDA s2 :
                                                     Bind(load_array(f, l.path_x, l.columns_x), LAMBDA lx :
                                                       IF lx.err # "ok" THEN [s |-> s2, err |-> lx.err, warned |-> w, ld |-> l]
                                                       ELSE Bind(load_array(f, l.path_y, l.columns_y), LAMBDA ly :
                                                         IF ly.err # "ok" THEN [s |-> [s2 EXCEPT !.x = lx.array, !.x_names = lx.names], err |-> ly.err, warned |-> w, ld |-> l]
                                                         ELSE Bind([s2 EXCEPT !.x = lx.array, !.x_names = lx.names, !.y = ly.array, !.y_names = ly.names], LAMBDA s4 :
                                                           load_finish(s4, w, [l EXCEPT !.x_read = s4.x, !.y_read = s4.y], remove_non_finite)))))

\* Sample.load(path, path_y, columns_x, columns_y, remove_non_finite):
\* the Sample as the call leaves it (also when it raises), the exception,
\* whether the warning was printed, and the paths and columns it chose.
\* Only NotADirectoryError from the settings file is caught.
load(self, f, path, path_y, columns_x, columns_y, remove_non_finite) == Bind(params_load(f, path, path_join(path, ParamsName)), LAMBDA pl :
                                                                          IF pl.err \notin {"ok", "NotADirectoryError"} THEN [s |-> self, err |-> pl.err, warned |-> FALSE, ld |-> NoLoad]
                                                                          ELSE Bind(load_paths(f, path, path_y, columns_x, columns_y), LAMBDA l :
                                                                            Bind(IF pl.err = "ok" THEN [self EXCEPT !.settings = pl.content] ELSE self, LAMBDA s1 :
                                                                              load_data(s1, pl.err = "NotADirectoryError", f, l, path, remove_non_finite))))

----------------------------------------------------------------------------
(* Sample.save and Sample.train_test_split                                 *)

\* Sample.save(path): the folder, then the settings, x and y files; the
\* Sample and the files as the call leaves them, and the exception
save(self, f, path) == Bind([self EXCEPT !.path = path], LAMBDA s1 :
                         Bind(save_settings(s1, folder_create(f, path), path), LAMBDA f1 :
                           Bind(save_x(s1, f1, path), LAMBDA sx :
                             IF sx.err # "ok" THEN [s |-> s1, fs |-> f1, err |-> sx.err]
                             ELSE [s |-> s1, fs |-> save_y(s1, sx.fs, path), err |-> "ok"])))

\* frac_train, in percent, and the seeds a caller passes
FracTrain == {50, 75}
Seeds == {0, 1}

PermsOf(n) == {p \in [1..n -> 1..n] : \A a, b \in 1..n : p[a] = p[b] => a = b}

\* np.random.RandomState(seed).permutation(n): some permutation, and the
\* same one whenever the same seed is given again
permutation(tab, seed, n) == IF <<seed, n>> \in DOMAIN tab THEN {tab[<<seed, n>>]} ELSE PermsOf(IF n < 0 THEN 0 ELSE n)

\* sklearn's sizes: n_train = floor(train_size * n), n_test = n - n_train
n_train_of(frac_train, n) == (frac_train * n) \div 100

\* skl_ms.train_test_split(x, y, train_size=frac_train, random_state=seed)
\* and the assignment of its four results; perm is the seed's permutation
train_test_split(self, frac_train, perm) == Bind(n_train_of(frac_train, self.x.nr), LAMBDA n_train :
                                              IF self.x.nr # self.y.nr \/ self.x.nr < 1 \/ n_train = 0 THEN [s |-> self, err |-> "ValueError", train |-> <<>>, test |-> <<>>]
                                              ELSE Bind([test |-> SubSeq(perm, 1, self.x.nr - n_train), train |-> SubSeq(perm, self.x.nr - n_train + 1, self.x.nr)], LAMBDA ind :
                                                [s |-> [self EXCEPT !.x_train = Arr(take(self.x.d, ind.train), self.x.nc), !.x_test = Arr(take(self.x.d, ind.test), self.x.nc), !.y_train = Arr(take(self.y.d, ind.train), self.y.nc), !.y_test = Arr(take(self.y.d, ind.test), self.y.nc)], err |-> "ok", train |-> ind.train, test |-> ind.test]))

----------------------------------------------------------------------------
(* Sample.join                                                             *)

\* the message of the ValueError join raises itself
JoinError == "ValueError: Samples can not be joined"

\* what a call of join gives: the new Sample, or the exception and no Sample
NoJoin == [s |-> EmptySample, err |-> "none"]

\* all(s.n_x == samples[0].n_x for s in samples)
join_same_n_x(samples) == \A k \in 1..Len(samples) : samples[k].n_x = samples[1].n_x

\* the n_y check passed over
join_same_n_y_skipped(samples) == TRUE

\* all(s.n_y == samples[0].n_y for s in samples)
join_same_n_y(samples) == \A k \in 1..Len(samples) : samples[k].n_y = samples[1].n_y

\* n_samples of the first Sample only
join_n_samples_first(samples) == samples[1].n_samples

\* sum([s.n_samples for s in samples])
join_n_samples(samples) == SumSeq([k \in 1..Len(samples) |-> samples[k].n_samples])

\* join, lines 503-520: the arrays, the ranges, the names, n_samples.
\* np.vstack raises ValueError on blocks of different widths, np.min on an
\* array without rows
join_arrays(samples, sample) == IF ~vstack_ok([k \in 1..Len(samples) |-> samples[k].x]) THEN [s |-> EmptySample, err |-> "ValueError"]
                                ELSE Bind(vstack([k \in 1..Len(samples) |-> samples[k].x]), LAMBDA x :
                                  IF x.nr = 0 THEN [s |-> EmptySample, err |-> "ValueError"]
                                  ELSE IF ~vstack_ok([k \in 1..Len(samples) |-> samples[k].y]) THEN [s |-> EmptySample, err |-> "ValueError"]
                                  ELSE [s |-> [sample EXCEPT !.x = x, !.x_ranges = ranges(x), !.y = vstack([k \in 1..Len(samples) |-> samples[k].y]), !.x_names = samples[1].x_names, !.y_names = samples[1].y_names, !.n_samples = join_n_samples(samples)], err |-> "ok"])

\* Sample.join(samples): samples[0] of an empty list is an IndexError
join(samples) == IF Len(samples) = 0 THEN [s |-> EmptySample, err |-> "IndexError"]
                 ELSE IF ~join_same_n_x(samples) THEN [s |-> EmptySample, err |-> JoinError]
                 ELSE IF ~join_same_n_y(samples) THEN [s |-> EmptySample, err |-> JoinError]
                 ELSE join_arrays(samples, [EmptySample EXCEPT !.n_x = samples[1].n_x, !.n_y = samples[1].n_y])

----------------------------------------------------------------------------
(* One process at a time works on the output folder.  pc is its position:  *)
(* "new" (Sample() constructed), "gen_x" / "gen_loop" (inside generate),   *)
(* "generated", "killed" (the process was terminated), "loaded",           *)
(* "res_loop" (inside resume), "resumed", "saved", "split"                 *)
(* (train_test_split has returned), and "load_failed", "resume_failed",    *)
(* "save_failed", "split_failed" (the call raised; err is the exception).  *)

DirOut == <<"out">>

NoLocals == [i |-> 0, model |-> NoModel, incr |-> FALSE]
\* history kept for the properties: the Sample as save saw it, the index of
\* the last y-row on disk when the process was killed, the splits made, and
\* of the last call of resume the Sample and the y-file it started from,
\* its save_incrementally and the calls of the sampled function it made
NoGhost == [pre |-> EmptySample, k |-> None, hist |-> <<>>, start |-> EmptySample, yfile |-> Absent, incr |-> FALSE, calls |-> <<>>]

\* number of rows of the y-file of the output folder
YFileRows(f) == Len(Lookup(f, path_join(DirOut, YName)).rows)

\* the arguments of generate: n_samples, the sampled function (by its
\* number of outputs), the x matrix the sampler returns, save_incrementally
GenerateInputs == UNION {{[n_samples |-> n, ny |-> ny, x |-> x, incr |-> b] : ny \in 1..MaxNY, b \in BOOLEAN, x \in XMatrices(n, nx)} : n \in 1..MaxN, nx \in 1..MaxNX}

Init == /\ fs = <<>>
        /\ s = EmptySample
        /\ pc = "new"
        /\ loc = NoLocals
        /\ inp \in GenerateInputs
        /\ err = "ok"
        /\ warned = FALSE
        /\ ld = NoLoad
        /\ ghost = NoGhost
        /\ pool = <<>>
        /\ joined = NoJoin
        /\ nested = NoJoin
        /\ rngtab = <<>>

\* generate, up to the x array being known and (incrementally) persisted
GenerateBegin == /\ pc = "new"
                 /\ LET s1 == [s EXCEPT !.path = IF inp.incr THEN DirOut ELSE @, !.settings = [known |-> TRUE, n_samples |-> inp.n_samples, sampled_function |-> inp.ny]]
                        f1 == IF inp.incr THEN save_settings(s1, folder_create(fs, DirOut), DirOut) ELSE fs
                        s2 == [s1 EXCEPT !.x_names = Names(SubSeq(ParamNames, 1, inp.x.nc)), !.x = inp.x, !.n_x = inp.x.nc]
                    IN /\ s' = s2
                       /\ fs' = IF inp.incr THEN save_x(s2, f1, DirOut).fs ELSE f1
                 /\ pc' = "gen_x"
                 /\ UNCHANGED <<loc, inp, err, warned, ld, ghost, pool, joined, nested, rngtab>>

\* generate: the first call of the sampled function, on x[0], without model
GenerateFirst == /\ pc = "gen_x"
                 /\ LET model == fun_model(s.x.d[1])
                        y_val == fun_y(inp.ny, s.x.d[1], model)
                        s1 == [s EXCEPT !.y_names = Names(fun_names(inp.ny)), !.y = ArrOfRows(<<y_val>>)]
                    IN /\ s' = s1
                       /\ fs' = IF inp.incr THEN save_y(s1, fs, DirOut) ELSE fs
                       /\ loc' = [i |-> 2, model |-> model, incr |-> inp.incr]
                 /\ pc' = "gen_loop"
                 /\ UNCHANGED <<inp, err, warned, ld, ghost, pool, joined, nested, rngtab>>

\* generate: one turn of the loop over x[1:]
GenerateRow == /\ pc = "gen_loop"
               /\ loc.i <= s.x.nr
               /\ LET y_val == fun_y(inp.ny, s.x.d[loc.i], loc.model)
                  IN /\ s' = [s EXCEPT !.y = ArrOfRows(Append(s.y.d, y_val))]
                     /\ fs' = IF inp.incr THEN append_y(fs, DirOut, y_val) ELSE fs
               /\ loc' = [loc EXCEPT !.i = @ + 1]
               /\ UNCHANGED <<pc, inp, err, warned, ld, ghost, pool, joined, nested, rngtab>>

\* generate: after the loop
GenerateEnd == /\ pc = "gen_loop"
               /\ loc.i > s.x.nr
               /\ s' = [s EXCEPT !.y = ArrOfRows(s.y.d), !.n_y = ArrOfRows(s.y.d).nc]
               /\ pc' = "generated"
               /\ loc' = NoLocals
               /\ UNCHANGED <<fs, inp, err, warned, ld, ghost, pool, joined, nested, rngtab>>

\* the process is terminated between two rows of an evaluation loop;
\* nothing of its memory survives, the files do. ghost.k is the index of
\* the last x-row whose y-row the interrupted generate had persisted.
Kill == /\ pc \in {"gen_x", "gen_loop", "res_loop"}
        /\ pc = "res_loop" \/ inp.incr
        /\ pc' = "killed"
        /\ s' = EmptySample
        /\ loc' = NoLocals
        /\ ghost' = [NoGhost EXCEPT !.k = IF pc = "res_loop" THEN ghost.k ELSE YFileRows(fs) - 1]
        /\ UNCHANGED <<fs, inp, err, warned, ld, pool, joined, nested, rngtab>>

\* Sample.train_test_split(frac_train, seed)
TrainTestSplit == /\ pc \in {"generated", "loaded", "resumed", "split"}
                  /\ Len(ghost.hist) < MaxSplits
                  /\ \E frac_train \in FracTrain, seed \in Seeds : \E perm \in permutation(rngtab, seed, s.x.nr) : \E r \in {train_test_split(s, frac_train, perm)} :
                       /\ s' = r.s
                       /\ err' = r.err
                       /\ pc' = IF r.err = "ok" THEN "split" ELSE "split_failed"
                       /\ rngtab' = IF r.err = "ok" THEN Put(rngtab, <<seed, s.x.nr>>, perm) ELSE rngtab
                       /\ ghost' = IF r.err = "ok" THEN [ghost EXCEPT !.hist = Append(@, [seed |-> seed, frac_train |-> frac_train, train |-> r.train, test |-> r.test, x |-> s.x, y |-> s.y])] ELSE ghost
                  /\ UNCHANGED <<fs, loc, inp, warned, ld, pool, joined, nested>>

\* sample = Sample(); sample.load(<output folder>), by a new process
LoadOut == /\ pc \in {"killed", "saved"}
           /\ \E r \in {load(EmptySample, fs, DirOut, NoPath, ColAll, ColAll, FALSE)} :
                                       /\ s' = r.s
                                       /\ err' = r.err
                                       /\ warned' = r.warned
                                       /\ ld' = r.ld
                                       /\ pc' = IF r.err = "ok" THEN "loaded" ELSE "load_failed"
           /\ loc' = NoLocals
           /\ UNCHANGED <<fs, inp, ghost, pool, joined, nested, rngtab>>

\* the y-row of x[1] counted as missing too
remaining_steps_one_more(self) == self.settings.n_samples - self.y.nr + 1

\* remaining_steps = self.settings['n_samples'] - self.y.shape[0]
remaining_steps(self) == self.settings.n_samples - self.y.nr

\* resume, up to the call that rebuilds the model-state
ResumeBegin == /\ pc = "loaded"
               /\ s.settings.known
               /\ \E save_incrementally \in BOOLEAN :
                    IF remaining_steps(s) = 0 THEN /\ pc' = "resumed"
                                                   /\ ghost' = [ghost EXCEPT !.start = s, !.yfile = Lookup(fs, path_join(s.path, YName)), !.incr = save_incrementally, !.calls = <<>>]
                                                   /\ UNCHANGED loc
                    ELSE /\ pc' = "res_loop"
                         /\ loc' = [i |-> s.y.nr + 1, model |-> fun_model(s.x.d[1]), incr |-> save_incrementally]
                         /\ ghost' = [ghost EXCEPT !.start = s, !.yfile = Lookup(fs, path_join(s.path, YName)), !.incr = save_incrementally, !.calls = <<[row |-> 1, model |-> NoModel, y_val |-> fun_y(s.settings.sampled_function, s.x.d[1], fun_model(s.x.d[1]))]>>]
               /\ UNCHANGED <<fs, s, inp, err, warned, ld, pool, joined, nested, rngtab>>

\* resume: one turn of the loop over x[y.shape[0]:]
ResumeRow == /\ pc = "res_loop"
             /\ loc.i <= s.x.nr
             /\ LET y_val == fun_y(s.settings.sampled_function, s.x.d[loc.i], loc.model)
                IN /\ ghost' = [ghost EXCEPT !.calls = Append(@, [row |-> loc.i, model |-> loc.model, y_val |-> y_val])]
                   /\ IF Len(y_val) # s.y.nc THEN /\ pc' = "resume_failed"
                                                  /\ err' = "ValueError"
                                                  /\ UNCHANGED <<s, fs, loc>>
                      ELSE /\ s' = [s EXCEPT !.y = vstack(<<s.y, Arr(<<y_val>>, Len(y_val))>>)]
                           /\ fs' = IF loc.incr THEN append_y(fs, s.path, y_val) ELSE fs
                           /\ loc' = [loc EXCEPT !.i = @ + 1]
                           /\ UNCHANGED <<pc, err>>
             /\ UNCHANGED <<inp, warned, ld, pool, joined, nested, rngtab>>

\* resume: after the loop
ResumeEnd == /\ pc = "res_loop"
             /\ loc.i > s.x.nr
             /\ pc' = "resumed"
             /\ loc' = NoLocals
             /\ UNCHANGED <<fs, s, inp, err, warned, ld, ghost, pool, joined, nested, rngtab>>

\* Sample.save(path)
Save == /\ pc \in {"generated", "loaded", "resumed"}
        /\ \E r \in {save(s, fs, DirOut)} :
             /\ s' = r.s
             /\ fs' = r.fs
             /\ err' = r.err
             /\ pc' = IF r.err = "ok" THEN "saved" ELSE "save_failed"
             /\ ghost' = [NoGhost EXCEPT !.pre = r.s]
        /\ UNCHANGED <<loc, inp, warned, ld, pool, joined, nested, rngtab>>

\* generation into the output folder, termination of the process, load,
\* resume and save
Next == GenerateBegin \/ GenerateFirst \/ GenerateRow \/ GenerateEnd \/ Kill \/ LoadOut \/ ResumeBegin \/ ResumeRow \/ ResumeEnd \/ Save

Spec == Init /\ [][Next]_vars

\* a Sample generated in memory, or saved and loaded again, then split
InitSplit == Init /\ ~inp.incr

NextSplit == GenerateBegin \/ GenerateFirst \/ GenerateRow \/ GenerateEnd \/ Save \/ LoadOut \/ TrainTestSplit

SpecSplit == InitSplit /\ [][NextSplit]_vars

----------------------------------------------------------------------------
(* load on the layouts it accepts: a folder with the x-file and the y-file *)
(* (with or without the settings file), a single file with x and y side by *)
(* side, two files named by the caller, and a path that does not exist.    *)

LoadDir == <<"d">>
CombinedFile == <<"xy.txt">>
MissingPath == <<"missing">>

\* the x matrix on disk: n rows of nx distinct finite values
XData(n, nx) == Arr([r \in 1..n |-> [c \in 1..nx |-> 10 * r + c]], nx)

\* a y-row is all finite, or has NaN in its first column only, or has no
\* finite value (inf first, then NaN)
YRowKinds == {"finite", "partly", "nowhere"}
YRow(kind, r, ny) == [c \in 1..ny |-> IF kind = "finite" THEN 100 * r + c ELSE IF kind = "partly" THEN (IF c = 1 THEN NaN ELSE 100 * r + c) ELSE (IF c = 1 THEN Inf ELSE NaN)]
YData(kinds, ny) == Arr([r \in 1..Len(kinds) |-> YRow(kinds[r], r, ny)], ny)

\* x and y side by side, as the rows of a single file
hstack(x, y) == Arr([r \in 1..x.nr |-> x.d[r] \o y.d[r]], x.nc + y.nc)

\* the header text of a data file: the names, or none
header_of(names, named) == IF named THEN join_tab(names) ELSE <<"">>

\* the files of one disk: the folder with x_sample and y_sample, the
\* settings file if wanted, and the single file with x and y
Disk(x, y, named, settings) == Bind(savetxt(savetxt(Put(<<>>, LoadDir, Folder), path_join(LoadDir, XName), x, header_of(SubSeq(ParamNames, 1, x.nc), named)), path_join(LoadDir, YName), y, header_of(fun_names(y.nc), named)), LAMBDA f2 :
                                 Bind(IF settings THEN Put(f2, path_join(LoadDir, ParamsName), YamlFile([known |-> TRUE, n_samples |-> x.nr, sampled_function |-> y.nc])) ELSE f2, LAMBDA f3 :
                                   savetxt(f3, CombinedFile, hstack(x, y), header_of(SubSeq(ParamNames, 1, x.nc) \o fun_names(y.nc), named))))

Disks == UNION {{Disk(XData(n, nx), YData(kinds, ny), named, settings) : nx \in 1..MaxNX, ny \in 1..MaxNY, kinds \in [1..n -> YRowKinds], named \in BOOLEAN, settings \in BOOLEAN} : n \in 1..MaxN}

\* the arguments of load
LoadColumns == {<<ColAll, ColAll>>, <<ColButLast, ColLast>>, <<ColLast, ColButLast>>}
LoadInputs == {[path |-> p, path_y |-> py, columns_x |-> cols[1], columns_y |-> cols[2], remove_non_finite |-> rnf] : p \in {LoadDir, CombinedFile, MissingPath, path_join(LoadDir, XName)}, py \in {NoPath, path_join(LoadDir, YName)}, cols \in LoadColumns, rnf \in BOOLEAN}

InitLoad == /\ fs \in Disks
            /\ s = EmptySample
            /\ pc = "new"
            /\ loc = NoLocals
            /\ inp \in LoadInputs
            /\ err = "ok"
            /\ warned = FALSE
            /\ ld = NoLoad
            /\ ghost = NoGhost
            /\ pool = <<>>
            /\ joined = NoJoin
            /\ nested = NoJoin
            /\ rngtab = <<>>

\* Sample().load(path, path_y, columns_x, columns_y, remove_non_finite)
Load == /\ pc = "new"
        /\ \E r \in {load(s, fs, inp.path, inp.path_y, inp.columns_x, inp.columns_y, inp.remove_non_finite)} :
             /\ s' = r.s
             /\ err' = r.err
             /\ warned' = r.warned
             /\ ld' = r.ld
             /\ pc' = IF r.err = "ok" THEN "loaded" ELSE "load_failed"
        /\ UNCHANGED <<fs, loc, inp, ghost, pool, joined, nested, rngtab>>

NextLoad == Load

SpecLoad == InitLoad /\ [][NextLoad]_vars

----------------------------------------------------------------------------
(* load of data files whose header carries the names, is missing, or has   *)
(* one name too many, followed by save into the output folder and load     *)
(* from there                                                              *)

HeaderKinds == {"names", "none", "wrong"}

\* the header text of a data file of the given kind
header_kind(names, kind) == IF kind = "names" THEN join_tab(names) ELSE IF kind = "none" THEN <<"">> ELSE join_tab(Append(names, "extra"))

\* the folder with x_sample, y_sample and the settings file, and the single
\* file with x and y, their headers of the kinds given
DiskHeaders(x, y, hx, hy) == Bind(savetxt(savetxt(Put(<<>>, LoadDir, Folder), path_join(LoadDir, XName), x, header_kind(SubSeq(ParamNames, 1, x.nc), hx)), path_join(LoadDir, YName), y, header_kind(fun_names(y.nc), hy)), LAMBDA f2 :
                               savetxt(Put(f2, path_join(LoadDir, ParamsName), YamlFile([known |-> TRUE, n_samples |-> x.nr, sampled_function |-> y.nc])), CombinedFile, hstack(x, y), header_kind(SubSeq(ParamNames, 1, x.nc) \o fun_names(y.nc), hx)))

NameDisks == UNION {{DiskHeaders(XData(n, nx), YData([r \in 1..n |-> "finite"], ny), hx, hy) : nx \in 1..MaxNX, ny \in 1..MaxNY, hx \in HeaderKinds, hy \in HeaderKinds} : n \in 1..MaxN}

NameInputs == {[path |-> p, path_y |-> NoPath, columns_x |-> ColAll, columns_y |-> ColAll, remove_non_finite |-> FALSE] : p \in {LoadDir, CombinedFile}}

InitNames == /\ fs \in NameDisks
             /\ s = EmptySample
             /\ pc = "new"
             /\ loc = NoLocals
             /\ inp \in NameInputs
             /\ err = "ok"
             /\ warned = FALSE
             /\ ld = NoLoad
             /\ ghost = NoGhost
             /\ pool = <<>>
             /\ joined = NoJoin
             /\ nested = NoJoin
             /\ rngtab = <<>>

NextNames == Load \/ Save \/ LoadOut

SpecNames == InitNames /\ [][NextNames]_vars

----------------------------------------------------------------------------
(* join of Samples loaded from the folders of one disk                     *)

JoinDirs == {<<"j1">>, <<"j2">>, <<"j3">>, <<"j4">>}

\* a Sample in memory with the arrays given, named as generate names them
MemSample(xd, yd) == [EmptySample EXCEPT !.x = ArrOfRows(xd), !.y = ArrOfRows(yd), !.x_names = Names(SubSeq(ParamNames, 1, Len(xd[1]))), !.y_names = Names(fun_names(Len(yd[1]))), !.settings = [known |-> TRUE, n_samples |-> Len(xd), sampled_function |-> Len(yd[1])]]

\* four folders written by save: j1 and j2 with one x and one y column (j1
\* with one row whose y is NaN, j2 with no finite y at all), j3 with two x
\* columns, j4 with two y columns
JoinDisk == Bind(save(MemSample(<<<<1>>, <<2>>>>, <<<<5>>, <<NaN>>>>), <<>>, <<"j1">>).fs, LAMBDA f1 :
              Bind(save(MemSample(<<<<3>>, <<0>>>>, <<<<NaN>>, <<Inf>>>>), f1, <<"j2">>).fs, LAMBDA f2 :
                Bind(save(MemSample(<<<<4, 6>>, <<7, 8>>>>, <<<<9>>, <<10>>>>), f2, <<"j3">>).fs, LAMBDA f3 :
                  save(MemSample(<<<<11>>, <<12>>, <<13>>>>, <<<<14, 15>>, <<16, 17>>, <<18, 19>>>>), f3, <<"j4">>).fs)))

InitJoin == /\ fs = JoinDisk
            /\ s = EmptySample
            /\ pc = "pool"
            /\ loc = NoLocals
            /\ inp = [n_samples |-> 0, ny |-> 0, x |-> NoneArr, incr |-> FALSE]
            /\ err = "ok"
            /\ warned = FALSE
            /\ ld = NoLoad
            /\ ghost = NoGhost
            /\ pool = <<>>
            /\ joined = NoJoin
            /\ nested = NoJoin
            /\ rngtab = <<>>

\* samples.append(Sample().load(folder, remove_non_finite=...))
LoadPool == /\ pc = "pool"
            /\ Len(pool) < MaxPool
            /\ \E d \in JoinDirs, rnf \in BOOLEAN : \E r \in {load(EmptySample, fs, d, NoPath, ColAll, ColAll, rnf)} :
                 /\ r.err = "ok"
                 /\ pool' = Append(pool, r.s)
            /\ UNCHANGED <<fs, s, pc, loc, inp, err, warned, ld, ghost, joined, nested, rngtab>>

\* joined = Sample.join(samples)
Join == /\ pc = "pool"
        /\ \E r \in {join(pool)} :
             /\ joined' = r
             /\ pc' = IF r.err = "ok" THEN "joined" ELSE "join_failed"
        /\ UNCHANGED <<fs, s, loc, inp, err, warned, ld, ghost, pool, nested, rngtab>>

\* nested = Sample.join([Sample.join(samples[:-1]), samples[-1]]); the
\* exception of the inner call is the exception of the whole
JoinNested == /\ pc \in {"joined", "join_failed"}
              /\ Len(pool) >= 2
              /\ \E inner \in {join(SubSeq(pool, 1, Len(pool) - 1))} :
                   nested' = IF inner.err # "ok" THEN inner ELSE join(<<inner.s, pool[Len(pool)]>>)
              /\ pc' = "nested"
              /\ UNCHANGED <<fs, s, loc, inp, err, warned, ld, ghost, pool, joined, rngtab>>

NextJoin == LoadPool \/ Join \/ JoinNested

SpecJoin == InitJoin /\ [][NextJoin]_vars

----------------------------------------------------------------------------
(* Properties                                                              *)

\* the y matrix of one uninterrupted generate over the sampler's x matrix
RefY == Arr([r \in 1..inp.x.nr |-> fun_y(inp.ny, inp.x.d[r], fun_model(inp.x.d[1]))], inp.ny)

XFile == Lookup(fs, path_join(DirOut, XName))
YFile == Lookup(fs, path_join(DirOut, YName))

Range(q) == {q[k] : k \in 1..Len(q)}

\* C1 (Resumability): an uninterrupted generate ends with the reference y
\* matrix, and an incremental generate that is terminated once the y-row of
\* x[k] is on disk (k >= 0), then loaded from the output folder and resumed,
\* does not fail and ends with the same y matrix.
C1_Resumability == /\ (pc = "generated" => s.y = RefY)
                   /\ (ghost.k >= 0 => /\ pc \notin {"load_failed", "resume_failed"}
                                        /\ (pc = "resumed" => s.y = RefY))

\* C2 (Round-trip): a Sample with known names and as many y-rows as x-rows
\* that was saved and then loaded from the folder by a fresh Sample has the
\* same x, y, x_names and y_names as the saved one.
C2_RoundTrip == (ghost.pre.x_names.known /\ ghost.pre.y_names.known /\ ghost.pre.x.nr = ghost.pre.y.nr /\ pc \in {"loaded", "load_failed"})
                => (pc = "loaded" /\ s.x = ghost.pre.x /\ s.y = ghost.pre.y /\ s.x_names = ghost.pre.x_names /\ s.y_names = ghost.pre.y_names)

\* C3: once generate, load or resume has completed, n_samples, n_x and n_y
\* are set and x.rows = y.rows = n_samples, n_x = x.cols, n_y = y.cols.
C3_CountsAgree == pc \in {"generated", "loaded", "resumed"} => (s.x.nr = s.n_samples /\ s.y.nr = s.n_samples /\ s.n_x = s.x.nc /\ s.n_y = s.y.nc)

\* C5: at every row boundary of an incremental generate the x-file holds
\* all n_samples x-rows (so it is complete before the y-file has a row and
\* is not changed afterwards), and from the first evaluation on the y-file
\* holds exactly one row per completed evaluation, equal in order to the
\* rows of y in memory.
C5_IncrementalFiles == (inp.incr /\ pc \in {"gen_x", "gen_loop", "generated"})
                       => /\ XFile.kind = "file" /\ parse_rows(XFile.rows) = inp.x.d
                          /\ (pc = "gen_x" => YFile.kind = "none")
                          /\ (pc = "gen_loop" => YFile.kind = "file" /\ Len(YFile.rows) = loc.i - 1 /\ parse_rows(YFile.rows) = s.y.d)
                          /\ (pc = "generated" => Len(YFile.rows) = inp.n_samples /\ parse_rows(YFile.rows) = s.y.d)

\* C5, its case: two evaluations are done and on disk, one is still to come
C5_Witness == inp.incr /\ pc = "gen_loop" /\ loc.i = 3 /\ inp.n_samples = 3 /\ Len(YFile.rows) = 2

\* C10: after train_test_split every row index of the sample is in exactly
\* one of train and test, x_train.rows + x_test.rows = n_samples, co-indexed
\* rows of x_train / y_train (x_test / y_test) come from the same original
\* row, two calls with the same seed and fraction on the same x, y give the
\* same partition, and x and y are as before the call.
C10_SplitPartition == pc = "split" => LET h == ghost.hist[Len(ghost.hist)]
                                      IN /\ Range(h.train) \cup Range(h.test) = 1..s.x.nr
                                         /\ Range(h.train) \cap Range(h.test) = {}
                                         /\ Len(h.train) + Len(h.test) = s.x.nr
                                         /\ s.x_train.nr + s.x_test.nr = s.n_samples
                                         /\ s.x_train.nr = Len(h.train) /\ s.y_train.nr = Len(h.train)
                                         /\ s.x_test.nr = Len(h.test) /\ s.y_test.nr = Len(h.test)
                                         /\ \A k \in 1..Len(h.train) : s.x_train.d[k] = s.x.d[h.train[k]] /\ s.y_train.d[k] = s.y.d[h.train[k]]
                                         /\ \A k \in 1..Len(h.test) : s.x_test.d[k] = s.x.d[h.test[k]] /\ s.y_test.d[k] = s.y.d[h.test[k]]
                                         /\ \A a, b \in 1..Len(ghost.hist) : (ghost.hist[a].seed = ghost.hist[b].seed /\ ghost.hist[a].frac_train = ghost.hist[b].frac_train) => (ghost.hist[a].train = ghost.hist[b].train /\ ghost.hist[a].test = ghost.hist[b].test)
                                         /\ s.x = h.x /\ s.y = h.y

\* every value of the row is finite
AllFinite(row) == \A c \in 1..Len(row) : isfinite(row[c])

\* C4: load with remove_non_finite=True removes exactly the rows of the y it
\* read in which at least one value is NaN or infinite: x and y keep, in
\* their original order, the rows at the indices whose y-values are all
\* finite, and n_samples is the number of rows read minus the number removed.
C4_NonFiniteFiltering == (pc = "loaded" /\ inp.remove_non_finite)
                         => LET keep == [r \in 1..ld.y_read.nr |-> AllFinite(ld.y_read.d[r])]
                            IN /\ s.x.d = FilterIdx(ld.x_read.d, keep, 1)
                               /\ s.y.d = FilterIdx(ld.y_read.d, keep, 1)
                               /\ s.n_samples = ld.x_read.nr - Cardinality({r \in 1..ld.y_read.nr : ~keep[r]})

\* the paths and columns load has chosen for x and for y
Chosen(path_x, path_y, columns_x, columns_y) == ld.path_x = path_x /\ ld.path_y = path_y /\ ld.columns_x = columns_x /\ ld.columns_y = columns_y

\* C6: when load has returned or raised: (1) with path and path_y both
\* given, x was read from path and y from path_y with the caller's columns
\* (all by default); (2) else with path a directory, x and y were read from
\* x_sample.txt and y_sample.txt inside it and self.path is that directory;
\* (3) else with path a file, both were read from it, x all columns but the
\* last and y the last; (4) otherwise load raised and x, y are still None.
\* self.path is set in case (2) only.
C6_LoadClassification == pc \in {"loaded", "load_failed"}
                         => LET both == inp.path # NoPath /\ inp.path_y # NoPath
                            IN /\ both => (Chosen(inp.path, inp.path_y, inp.columns_x, inp.columns_y) /\ s.path = NoPath)
                               /\ (~both /\ isdir(fs, inp.path)) => (Chosen(path_join(inp.path, XName), path_join(inp.path, YName), inp.columns_x, inp.columns_y) /\ s.path = inp.path)
                               /\ (~both /\ ~isdir(fs, inp.path) /\ isfile(fs, inp.path)) => (Chosen(inp.path, inp.path, ColButLast, ColLast) /\ s.path = NoPath)
                               /\ (~both /\ ~isdir(fs, inp.path) /\ ~isfile(fs, inp.path)) => (pc = "load_failed" /\ s.x = NoneArr /\ s.y = NoneArr /\ s.path = NoPath)

\* C7: load of a directory that holds the x-file and the y-file but no
\* settings file returns: the warning is printed, settings stays None, and
\* x, y, x_ranges and the counts are set (the names too, when the files
\* carry them).
C7_MissingSettings == (pc \in {"loaded", "load_failed"} /\ inp.path = LoadDir /\ inp.path_y = NoPath /\ isfile(fs, path_join(LoadDir, XName)) /\ isfile(fs, path_join(LoadDir, YName)) /\ ~isfile(fs, path_join(LoadDir, ParamsName)))
                      => /\ pc = "loaded" /\ warned /\ ~s.settings.known
                         /\ s.x # NoneArr /\ s.y # NoneArr /\ s.x_ranges.known
                         /\ s.n_samples = s.x.nr /\ s.n_x = s.x.nc /\ s.n_y = s.y.nc
                         /\ (Lookup(fs, path_join(LoadDir, XName)).hdr # <<>> => s.x_names.known)
                         /\ (Lookup(fs, path_join(LoadDir, YName)).hdr # <<>> => s.y_names.known)

\* every Sample of the list has the n_x and the n_y of the first
Compatible(samples) == \A k \in 1..Len(samples) : samples[k].n_x = samples[1].n_x /\ samples[k].n_y = samples[1].n_y

\* C8: join of a non-empty list raises its own ValueError and returns no
\* Sample whenever an input's n_x or n_y differs from the first input's, and
\* it returns a Sample only when all inputs share n_x and n_y.
C8_JoinMismatchFails == (pc \in {"joined", "join_failed", "nested"} /\ Len(pool) >= 1)
                        => /\ (~Compatible(pool) => (joined.err = JoinError /\ joined.s = EmptySample))
                           /\ (joined.err = "ok" => Compatible(pool))

\* C8, its case: three Samples that agree on n_x and differ on n_y only
C8_Witness == pc = "join_failed" /\ Len(pool) = 3 /\ (\A k \in 1..3 : pool[k].n_x = pool[1].n_x) /\ pool[3].n_y # pool[1].n_y /\ pool[2].n_y = pool[1].n_y

\* number of rows of the Samples before the k-th
RowsBefore(samples, k) == SumSeq([j \in 1..(k - 1) |-> samples[j].x.nr])

\* r is a Sample made of the rows of the list, in the order of the list
\* and of each Sample's rows, with the names of the first Sample
Concatenation(r, samples) == /\ r.x.nr = RowsBefore(samples, Len(samples) + 1)
                             /\ r.y.nr = r.x.nr
                             /\ \A k \in 1..Len(samples) : \A i \in 1..samples[k].x.nr : r.x.d[RowsBefore(samples, k) + i] = samples[k].x.d[i] /\ r.y.d[RowsBefore(samples, k) + i] = samples[k].y.d[i]
                             /\ r.n_samples = SumSeq([k \in 1..Len(samples) |-> samples[k].n_samples])
                             /\ r.n_samples = r.x.nr
                             /\ r.x_names = samples[1].x_names /\ r.y_names = samples[1].y_names

\* the two Samples agree on x, y, n_samples, n_x, n_y and x_ranges
SameData(a, b) == a.x = b.x /\ a.y = b.y /\ a.n_samples = b.n_samples /\ a.n_x = b.n_x /\ a.n_y = b.n_y /\ a.x_ranges = b.x_ranges

\* C9 as stated: on every non-empty list of compatible Samples join returns
\* the concatenation, and joining the join of all but the last with the
\* last gives the same data as joining all at once.
C9_JoinConcatenates == (pc \in {"joined", "join_failed", "nested"} /\ Len(pool) >= 1 /\ Compatible(pool))
                       => /\ joined.err = "ok" /\ Concatenation(joined.s, pool)
                          /\ (pc = "nested" => (nested.err = "ok" /\ SameData(nested.s, joined.s)))

\* C9 amended: the same, for lists that hold at least one row (and, for
\* the nested form, at least one row in the Samples joined first).
C9_JoinConcatenatesRows == (pc \in {"joined", "join_failed", "nested"} /\ Len(pool) >= 1 /\ Compatible(pool) /\ RowsBefore(pool, Len(pool) + 1) >= 1)
                           => /\ joined.err = "ok" /\ Concatenation(joined.s, pool)
                              /\ ((pc = "nested" /\ RowsBefore(pool, Len(pool)) >= 1) => (nested.err = "ok" /\ SameData(nested.s, joined.s)))

\* C9, its case: three compatible Samples with rows, one of them shortened
\* by the removal of a row, joined at once and in two steps
C9_Witness == pc = "nested" /\ Len(pool) = 3 /\ Compatible(pool) /\ nested.err = "ok" /\ joined.s.x.nr = 5 /\ pool[1].x.nr = 1 /\ pool[1].x # pool[2].x /\ pool[2].x # pool[3].x

\* C11: save of a Sample whose x_names and/or y_names are None completes
\* and writes the x-file / y-file of the unknown names without header line,
\* and the load of the folder that follows returns with these names None.
C11_AbsentNames == /\ (pc \in {"saved", "save_failed"} /\ (~ghost.pre.x_names.known \/ ~ghost.pre.y_names.known))
                      => /\ pc = "saved"
                         /\ (~ghost.pre.x_names.known => (XFile.kind = "file" /\ XFile.hdr = <<>>))
                         /\ (~ghost.pre.y_names.known => (YFile.kind = "file" /\ YFile.hdr = <<>>))
                   /\ (pc \in {"loaded", "load_failed"} /\ ghost.pre.x # NoneArr /\ (~ghost.pre.x_names.known \/ ~ghost.pre.y_names.known))
                      => /\ pc = "loaded"
                         /\ (~ghost.pre.x_names.known => ~s.x_names.known)
                         /\ (~ghost.pre.y_names.known => ~s.y_names.known)

\* the numbers of the file at the path, row by row
FileRows(path) == parse_rows(Lookup(fs, path).rows)

\* the names in the header line of the file at the path
FileNames(path) == Lookup(fs, path).hdr[Len(Lookup(fs, path).hdr)]

\* the array and the names are the columns selected from the file at the
\* path and from the names of its header (when it has as many names as the
\* file has columns)
Selected(a, names, path, columns) == /\ a.d = [r \in 1..Len(FileRows(path)) |-> take(FileRows(path)[r], slice_idx(columns, Len(FileRows(path)[r])))]
                                     /\ (Lookup(fs, path).hdr # <<>> /\ Len(FileNames(path)) = Len(FileRows(path)[1])) => names = Names(take(FileNames(path), slice_idx(columns, Len(FileNames(path)))))

\* C12: in each of the three formats, when load returns and the caller
\* passed columns_x (columns_y) other than the default, x (y) as read is
\* made of exactly these columns of its file, and so are its names.
C12_ColumnSelection == pc = "loaded"
                       => /\ (inp.columns_x # ColAll => Selected(ld.x_read, s.x_names, ld.path_x, inp.columns_x))
                          /\ (inp.columns_y # ColAll => Selected(ld.y_read, s.y_names, ld.path_y, inp.columns_y))

\* the values of column c of the array
ColumnValues(a, c) == {a.d[r][c] : r \in 1..a.nr}

\* rg holds one pair per column of x: the least and the greatest value of
\* the column over the rows of x (columns holding nan aside)
RangesOf(rg, x) == /\ rg.known
                   /\ Len(rg.v) = x.nc
                   /\ \A c \in 1..x.nc : NaN \notin ColumnValues(x, c)
                        => /\ rg.v[c][1] \in ColumnValues(x, c) /\ \A e \in ColumnValues(x, c) : rg.v[c][1] <= e
                           /\ rg.v[c][2] \in ColumnValues(x, c) /\ \A e \in ColumnValues(x, c) : rg.v[c][2] >= e

\* C13: when load has returned a Sample with rows, x_ranges holds for every
\* column of x its minimum and maximum over the rows of x as load leaves
\* it, that is after the removal of rows when remove_non_finite is set.
C13_RangesOfFinalX == (pc = "loaded" /\ s.x.nr >= 1) => RangesOf(s.x_ranges, s.x)

\* settings.n_samples - y.rows of the Sample the last resume started from
Remaining == ghost.start.settings.n_samples - ghost.start.y.nr

\* C14: when resume has returned on a Sample with settings.n_samples -
\* y.rows = 0, it made no call of the sampled function (none on x[0]
\* either), the y-file is as it was, and the Sample (x, y, names, counts,
\* settings and all other attributes) is as it was.
C14_ResumeNoOp == (pc = "resumed" /\ Remaining = 0)
                  => /\ ghost.calls = <<>>
                     /\ YFile = ghost.yfile
                     /\ s = ghost.start

\* C14, its case: resume of a folder whose three y-rows are all on disk
C14_Witness == pc = "resumed" /\ Remaining = 0 /\ ghost.start.y.nr = 3 /\ ghost.start.x.nr = 3 /\ ghost.incr /\ Len(YFile.rows) = 3

\* the y-rows the calls after the first one returned
Results == [j \in 1..(Len(ghost.calls) - 1) |-> ghost.calls[j + 1].y_val]

\* C15: at every row boundary of a resume with remaining > 0, and when it
\* has returned or raised: the first call was made on x[0] without
\* model-state; the calls after it were made on the rows y.rows (as
\* loaded), y.rows + 1, ... in this order, once each, with the model-state
\* of the first call; y in memory is y as loaded followed by their results
\* (not by the result of the first call); the y-file has one more row per
\* result when save_incrementally is set and is as it was otherwise; no
\* call raised; and on return every row up to the last of x was evaluated,
\* y.rows = settings.n_samples and x is as it was.
C15_ResumeCallOrder == (pc \in {"res_loop", "resumed", "resume_failed"} /\ Remaining > 0)
                       => /\ pc # "resume_failed"
                          /\ Len(ghost.calls) >= 1
                          /\ ghost.calls[1].row = 1 /\ ghost.calls[1].model = NoModel
                          /\ \A j \in 2..Len(ghost.calls) : ghost.calls[j].row = ghost.start.y.nr + j - 1 /\ ghost.calls[j].model = fun_model(ghost.start.x.d[1])
                          /\ s.y.d = ghost.start.y.d \o Results
                          /\ YFile.rows = (IF ghost.incr THEN ghost.yfile.rows \o [j \in 1..Len(Results) |-> [c \in 1..Len(Results[j]) |-> fmt(Results[j][c])]] ELSE ghost.yfile.rows)
                          /\ s.x = ghost.start.x
                          /\ (pc = "resumed" => (ghost.start.y.nr + Len(Results) = s.x.nr /\ s.y.nr = s.settings.n_samples))

====
